---- MODULE Spec2Model ----
(***************************************************************************)
(* Path resolution on an MTP object tree (src/object/mod.rs).              *)
(*                                                                         *)
(* The remote store is a tree of objects, reachable only through remote    *)
(* calls (EnumObjects / Next on an enumeration, property fetches,          *)
(* object_by_id).  Object::object_by_path splits a relative path into      *)
(* components and walks them one at a time; every walk step is modelled    *)
(* at the granularity of one remote call, so that remote failures and      *)
(* mutations of the tree by another party can fall between any two calls.  *)
(***************************************************************************)
EXTENDS Integers, Sequences, FiniteSets, TLC

\* ------------------------------------------------------------------ bounds

\* Longest raw path, in separator-delimited segments.
MaxLen == 3

\* Mutations another party may apply to the remote tree (SpecMut only).
MaxMut == 1

\* ------------------------------------------------------------- value sets

Root == "DEVICE"
NonRoot == <<"o1", "o2", "o3">>
Range(s) == {s[i] : i \in 1..Len(s)}
Ids == {Root} \cup Range(NonRoot)
Absent == "absent"

\* Strings are sequences of code units; a U16CString holds no NUL.
NUL == "NUL"
Names == {<<"a">>, <<"b">>}
RootName == <<"d", "e", "v">>
\* The name slot of an identifier the device has never assigned.
Unnamed == <<>>
Types == {"Folder", "File"}

\* HRESULTs a failing remote call may report.
Hresults == {"E_FAIL", "E_ACCESSDENIED"}
\* GetStringValue on a property bag that lacks the key.
NotFoundHr == "ERROR_NOT_FOUND"

\* Stack frames available to the recursion of object_by_components.
StackLimit == MaxLen + 2

\* -------------------------------------------------------- path components

Normal(n) == [kind |-> "Normal", name |-> n]
CurDir == [kind |-> "CurDir", name |-> <<>>]
ParentDir == [kind |-> "ParentDir", name |-> <<>>]
RootDir == [kind |-> "RootDir", name |-> <<>>]
Prefix == [kind |-> "Prefix", name |-> <<>>]

Dot == <<".">>
DotDot == <<".", ".">>
Empty == <<>>
PrefixSeg == <<"C", ":">>
\* An OsStr may hold a NUL, which no remote name does.
NulSeg == <<"a", NUL, "b">>
RawSegs == Names \cup {NulSeg, Dot, DotDot, Empty}

\* The raw paths: a path is its segments, joined by separators; <<>> and
\* <<Empty>> are both the empty string, <<Empty, a>> is "/a", <<PrefixSeg, a>>
\* is "C:/a".
RECURSIVE SeqsUpTo(_, _)
SeqsUpTo(S, n) ==
    IF n = 0 THEN {<<>>}
    ELSE LET shorter == SeqsUpTo(S, n - 1)
         IN  shorter \cup {Append(s, x) : s \in {t \in shorter : Len(t) = n - 1}, x \in S}

RawPaths ==
    LET tails == SeqsUpTo(RawSegs, MaxLen - 1)
    IN  {<<>>} \cup {<<h>> \o t : h \in RawSegs \cup {PrefixSeg}, t \in tails}

\* One body segment as Path::components() reports it: empty segments and
\* "." are dropped, ".." is ParentDir, anything else is Normal.
RECURSIVE BodyComponents(_)
BodyComponents(segs) ==
    IF segs = <<>> THEN <<>>
    ELSE LET s == Head(segs)
             rest == BodyComponents(Tail(segs))
         IN  IF s = Empty \/ s = Dot THEN rest
             ELSE IF s = DotDot THEN <<ParentDir>> \o rest
             ELSE <<Normal(s)>> \o rest

\* Path::components(): a prefix and a root are recognised at the front only,
\* and so is a leading ".".
Components(raw) ==
    IF raw = <<>> THEN <<>>
    ELSE IF raw[1] = PrefixSeg
         THEN (IF Len(raw) >= 2 THEN <<Prefix, RootDir>> ELSE <<Prefix>>)
              \o BodyComponents(Tail(raw))
    ELSE IF raw[1] = Empty /\ Len(raw) >= 2
         THEN <<RootDir>> \o BodyComponents(Tail(raw))
    ELSE IF raw[1] = Dot
         THEN <<CurDir>> \o BodyComponents(Tail(raw))
    ELSE BodyComponents(raw)

\* ------------------------------------------------------------------ state

VARIABLES
    kids,       \* remote: the children of each object, in enumeration order
    rname,      \* remote: display name of each object
    rtype,      \* remote: type of each object
    muts,       \* mutations applied so far by the other party
    pc,         \* resolver position
    origin,     \* the handle object_by_path was called on
    path,       \* the components of the path being resolved
    self,       \* the handle object_by_components is running on
    comps,      \* the components not yet consumed
    haystack,   \* the name a Normal step looks for
    iterPos,    \* children already pulled from the current enumeration
    pend,       \* identifier reported by the last remote call, not yet built
    result,     \* what object_by_path returned
    log,        \* the remote calls of the current operation, in order
    depth,      \* object_by_components frames on the stack
    listing,    \* the iterator a caller is consuming: children or sub_folders
    yielded,    \* the handles that iterator has yielded so far
    prev,       \* what the caller's previous object_by_path returned
    seen        \* history: parent and name of pend when Next reported it

remote == <<kids, rname, rtype>>
resolver == <<pc, origin, path, self, comps, haystack, iterPos, pend, result, log, depth>>
caller == <<listing, yielded, prev>>
vars == <<kids, rname, rtype, muts, pc, origin, path, self, comps, haystack,
          iterPos, pend, result, log, depth, listing, yielded, prev, seen>>

\* ----------------------------------------------------------- remote store

ParentOf(id) ==
    IF \E p \in Ids : id \in Range(kids[p])
    THEN CHOOSE p \in Ids : id \in Range(kids[p])
    ELSE Absent

Alive(id) == id = Root \/ ParentOf(id) # Absent

\* Object::new with the name and type the remote reports now.
Object(id) == [id |-> id, name |-> rname[id], ty |-> rtype[id]]
NoObject == [id |-> Absent, name |-> <<>>, ty |-> "Folder"]

\* The accessors: each returns a copy of the cached field.
handle_id(h) == h.id
handle_name(h) == h.name
object_type(h) == h.ty

\* What the remote says of id now: its parent and its name.
Sight(id) == [parent |-> ParentOf(id), name |-> rname[id]]
NoSight == [parent |-> Absent, name |-> <<>>]

\* --------------------------------------------------------------- results

None == [tag |-> "None"]
Ok(obj) == [tag |-> "Ok", obj |-> obj]
Err(kind, hr) == [tag |-> "Err", err |-> kind, hr |-> hr]
NotFound == Err("NotFound", "")
AbsolutePath == Err("AbsolutePath", "")

Call(name, id, out) == [call |-> name, id |-> id, out |-> out]

\* -------------------------------------------------- outcomes of remote calls

\* IPortableDeviceContent::EnumObjects on id.
EnumObjects(id) == (IF Alive(id) THEN {"ok"} ELSE {}) \cup Hresults

\* IEnumPortableDeviceObjectIDs::Next on the enumeration of id, pos children in.
EnumNext(id, pos) ==
    (IF Alive(id) /\ pos < Len(kids[id]) THEN {kids[id][pos + 1]} ELSE {"end"})
    \cup Hresults

\* Object::parent_id: the property fetch, then GetStringValue.
parent_id_or_self(id) ==
    (IF Alive(id) THEN {IF ParentOf(id) # Absent THEN ParentOf(id) ELSE id} ELSE {NotFoundHr})
    \cup Hresults
parent_id(id) ==
    (IF Alive(id) /\ ParentOf(id) # Absent THEN {ParentOf(id)} ELSE {NotFoundHr})
    \cup Hresults

\* Content::object_by_id: the name and type of id, fetched now.
object_by_id(id) == (IF Alive(id) THEN {"ok"} ELSE {}) \cup Hresults

\* ------------------------------------------------------------------- Init

Rank(id) == IF id = Root THEN 0 ELSE CHOOSE i \in 1..Len(NonRoot) : NonRoot[i] = id

\* The trees: every object hangs under one of lower rank, or is not on the
\* device; siblings are enumerated in rank order.
ParentMaps ==
    {par \in [Range(NonRoot) -> Ids \cup {Absent}] :
        \A c \in Range(NonRoot) :
            par[c] # Absent =>
                /\ Rank(par[c]) < Rank(c)
                /\ par[c] # Root => par[par[c]] # Absent}

KidsOf(par) ==
    [p \in Ids |-> SelectSeq(NonRoot, LAMBDA c : par[c] = p)]

\* Only folders hold children; an object without children is a file.
TypesOf(par) ==
    [p \in Ids |-> IF p = Root \/ \E c \in Range(NonRoot) : par[c] = p
                   THEN "Folder" ELSE "File"]

NameMaps(par) ==
    {f \in [Ids -> Names \cup {RootName, Unnamed}] :
        /\ f[Root] = RootName
        /\ \A c \in Range(NonRoot) :
              f[c] \in IF par[c] = Absent THEN {Unnamed} ELSE Names}

InitRemote(maps) ==
    \E par \in maps :
        /\ kids = KidsOf(par)
        /\ rname \in NameMaps(par)
        /\ rtype = TypesOf(par)

\* Every object is on the device.
FullMaps == {par \in ParentMaps : \A c \in Range(NonRoot) : par[c] # Absent}

\* The last identifier is still free, for an object created later.
SpareMaps ==
    {par \in ParentMaps :
        \A c \in Range(NonRoot) : par[c] = Absent <=> c = NonRoot[Len(NonRoot)]}

InitResolver ==
    /\ pc = "idle"
    /\ origin = NoObject
    /\ path = <<>>
    /\ self = NoObject
    /\ comps = <<>>
    /\ haystack = <<>>
    /\ iterPos = 0
    /\ pend = Absent
    /\ result = None
    /\ log = <<>>
    /\ depth = 0
    /\ listing = "none"
    /\ yielded = <<>>
    /\ prev = None
    /\ seen = NoSight

Init ==
    /\ InitRemote(FullMaps)
    /\ muts = 0
    /\ InitResolver

\* ------------------------------------------------------------- the resolver

\* The conversion the ? operator applies to a failed remote call.
from_windows_error_lossy(kind, hr) == NotFound
from_windows_error(kind, hr) == Err(kind, hr)

\* U16CString::from_os_str_truncate: the code units before the first NUL.
from_os_str_exact(name) == name
from_os_str_truncate(name) ==
    LET nuls == {i \in 1..Len(name) : name[i] = NUL}
    IN  IF nuls = {} THEN name
        ELSE SubSeq(name, 1, (CHOOSE i \in nuls : \A j \in nuls : i <= j) - 1)

\* The closure handed to find(): |obj| obj.name() == haystack.
find_predicate_any(obj, hay) == TRUE
find_predicate(obj, hay) == obj.name = hay

\* object_by_path: split the path, enter object_by_components on the origin.
object_by_path(o, raw) ==
    /\ pc = "idle"
    /\ origin' = o
    /\ path' = Components(raw)
    /\ self' = o
    /\ comps' = Components(raw)
    /\ pc' = "match"
    /\ haystack' = <<>>
    /\ iterPos' = 0
    /\ pend' = Absent
    /\ result' = None
    /\ log' = <<>>
    /\ depth' = 1

\* A return from the outermost frame.
Return(r) ==
    /\ result' = r
    /\ pc' = "done"
    /\ self' = NoObject
    /\ haystack' = <<>>
    /\ iterPos' = 0
    /\ pend' = Absent

\* object_by_components_last_stage: the candidate is the answer when no
\* component is left, and the next origin otherwise.
object_by_components_last_stage_no_peek(candidate, next_components) ==
    /\ result' = result
    /\ pc' = IF depth < StackLimit THEN "match" ELSE "overflow"
    /\ self' = candidate
    /\ haystack' = <<>>
    /\ iterPos' = 0
    /\ pend' = Absent
    /\ depth' = depth + 1
object_by_components_last_stage_from_origin(candidate, next_components) ==
    IF next_components = <<>>
    THEN /\ Return(Ok(candidate))
         /\ depth' = depth
    ELSE /\ result' = result
         /\ pc' = IF depth < StackLimit THEN "match" ELSE "overflow"
         /\ self' = origin
         /\ haystack' = <<>>
         /\ iterPos' = 0
         /\ pend' = Absent
         /\ depth' = depth + 1
object_by_components_last_stage(candidate, next_components) ==
    IF next_components = <<>>
    THEN /\ Return(Ok(candidate))
         /\ depth' = depth
    ELSE /\ result' = result
         /\ pc' = IF depth < StackLimit THEN "match" ELSE "overflow"
         /\ self' = candidate
         /\ haystack' = <<>>
         /\ iterPos' = 0
         /\ pend' = Absent
         /\ depth' = depth + 1

\* comps.next() is None.
MatchNone_identity ==
    /\ pc = "match"
    /\ comps = <<>>
    /\ Return(Ok(self))
    /\ UNCHANGED <<origin, path, comps, log, depth, remote, muts, caller, seen>>
MatchNone ==
    /\ pc = "match"
    /\ comps = <<>>
    /\ Return(NotFound)
    /\ UNCHANGED <<origin, path, comps, log, depth, remote, muts, caller, seen>>

\* comps.next() is Prefix or RootDir.
MatchAbsolute_skip ==
    /\ pc = "match"
    /\ comps # <<>>
    /\ Head(comps).kind \in {"Prefix", "RootDir"}
    /\ comps' = Tail(comps)
    /\ object_by_components_last_stage(self, Tail(comps))
    /\ UNCHANGED <<origin, path, log, remote, muts, caller, seen>>
MatchAbsolute ==
    /\ pc = "match"
    /\ comps # <<>>
    /\ Head(comps).kind \in {"Prefix", "RootDir"}
    /\ comps' = Tail(comps)
    /\ Return(AbsolutePath)
    /\ UNCHANGED <<origin, path, log, depth, remote, muts, caller, seen>>

\* comps.next() is CurDir: the candidate is a clone of self.
MatchCurDir_peek ==
    /\ pc = "match"
    /\ comps # <<>>
    /\ Head(comps).kind = "CurDir"
    /\ comps' = comps
    /\ object_by_components_last_stage(self, comps)
    /\ UNCHANGED <<origin, path, log, remote, muts, caller, seen>>
MatchCurDir_refetch ==
    /\ pc = "match"
    /\ comps # <<>>
    /\ Head(comps).kind = "CurDir"
    /\ comps' = Tail(comps)
    /\ object_by_components_last_stage(Object(self.id), Tail(comps))
    /\ UNCHANGED <<origin, path, log, remote, muts, caller, seen>>
MatchCurDir ==
    /\ pc = "match"
    /\ comps # <<>>
    /\ Head(comps).kind = "CurDir"
    /\ comps' = Tail(comps)
    /\ object_by_components_last_stage(self, Tail(comps))
    /\ UNCHANGED <<origin, path, log, remote, muts, caller, seen>>

\* comps.next() is Normal(name): self.children()?
MatchNormal ==
    /\ pc = "match"
    /\ comps # <<>>
    /\ Head(comps).kind = "Normal"
    /\ comps' = Tail(comps)
    /\ \E out \in EnumObjects(self.id) :
          /\ log' = Append(log, Call("EnumObjects", self.id, out))
          /\ IF out = "ok"
             THEN /\ pc' = "scan"
                  /\ haystack' = from_os_str_truncate(Head(comps).name)
                  /\ iterPos' = 0
                  /\ UNCHANGED <<self, pend, result>>
             ELSE Return(from_windows_error("EnumerationError", out))
    /\ UNCHANGED <<origin, path, depth, remote, muts, caller, seen>>

\* ObjectIterator::next, first half: pull the next child identifier.  The
\* iterator's Item is Object, so a failing Next can only end the sequence;
\* find() then returns None and ok_or makes it NotFound.
IterNext ==
    /\ pc = "scan"
    /\ \E out \in EnumNext(self.id, iterPos) :
          /\ log' = Append(log, Call("Next", self.id, out))
          /\ IF out \in Ids
             THEN /\ pc' = "fetch"
                  /\ pend' = out
                  /\ iterPos' = iterPos + 1
                  /\ seen' = Sight(out)
                  /\ UNCHANGED <<self, haystack, result>>
             ELSE /\ Return(NotFound)
                  /\ seen' = seen
    /\ UNCHANGED <<origin, path, comps, depth, remote, muts, caller>>

\* ObjectIterator::next, second half: build the child's handle, then the
\* find() predicate obj.name() == haystack.
IterFetch_last ==
    /\ pc = "fetch"
    /\ \E out \in object_by_id(pend) :
          /\ log' = Append(log, Call("Fetch", pend, out))
          /\ IF out = "ok"
             THEN IF /\ find_predicate(Object(pend), haystack)
                     /\ \A i \in (iterPos + 1)..Len(kids[self.id]) :
                            rname[kids[self.id][i]] # haystack
                  THEN object_by_components_last_stage(Object(pend), comps)
                  ELSE /\ pc' = "scan"
                       /\ pend' = Absent
                       /\ UNCHANGED <<self, haystack, iterPos, result, depth>>
             ELSE /\ Return(NotFound)
                  /\ depth' = depth
    /\ seen' = NoSight
    /\ UNCHANGED <<origin, path, comps, remote, muts, caller>>
IterFetch ==
    /\ pc = "fetch"
    /\ \E out \in object_by_id(pend) :
          /\ log' = Append(log, Call("Fetch", pend, out))
          /\ IF out = "ok"
             THEN IF find_predicate(Object(pend), haystack)
                  THEN object_by_components_last_stage(Object(pend), comps)
                  ELSE /\ pc' = "scan"
                       /\ pend' = Absent
                       /\ UNCHANGED <<self, haystack, iterPos, result, depth>>
             ELSE /\ Return(NotFound)
                  /\ depth' = depth
    /\ seen' = NoSight
    /\ UNCHANGED <<origin, path, comps, remote, muts, caller>>

\* comps.next() is ParentDir: self.parent_id()?
MatchParentDir ==
    /\ pc = "match"
    /\ comps # <<>>
    /\ Head(comps).kind = "ParentDir"
    /\ comps' = Tail(comps)
    /\ \E out \in parent_id(self.id) :
          /\ log' = Append(log, Call("ParentId", self.id, out))
          /\ IF out \in Ids
             THEN /\ pc' = "byid"
                  /\ pend' = out
                  /\ UNCHANGED <<self, haystack, iterPos, result>>
             ELSE Return(from_windows_error("PropertyLookupError", out))
    /\ UNCHANGED <<origin, path, depth, remote, muts, caller, seen>>

\* ...device_content.object_by_id(parent id)?
ParentById_self ==
    /\ pc = "byid"
    /\ \E out \in object_by_id(pend) :
          /\ log' = Append(log, Call("ObjectById", pend, out))
          /\ IF out = "ok"
             THEN object_by_components_last_stage(self, comps)
             ELSE /\ Return(from_windows_error("PropertyLookupError", out))
                  /\ depth' = depth
    /\ UNCHANGED <<origin, path, comps, remote, muts, caller, seen>>
ParentById_copy ==
    /\ pc = "byid"
    /\ \E out \in object_by_id(pend) :
          /\ log' = Append(log, Call("ObjectById", pend, out))
          /\ IF out = "ok"
             THEN object_by_components_last_stage(origin, comps)
             ELSE /\ Return(from_windows_error("PropertyLookupError", out))
                  /\ depth' = depth
    /\ UNCHANGED <<origin, path, comps, remote, muts, caller, seen>>
ParentById ==
    /\ pc = "byid"
    /\ \E out \in object_by_id(pend) :
          /\ log' = Append(log, Call("ObjectById", pend, out))
          /\ IF out = "ok"
             THEN object_by_components_last_stage(Object(pend), comps)
             ELSE /\ Return(from_windows_error("PropertyLookupError", out))
                  /\ depth' = depth
    /\ UNCHANGED <<origin, path, comps, remote, muts, caller, seen>>

\* A caller resolves a path from a handle it has just been given.
Resolve ==
    /\ pc = "idle"
    /\ \E id \in Ids, raw \in RawPaths :
          /\ Alive(id)
          /\ object_by_path(Object(id), raw)
    /\ UNCHANGED <<remote, muts, caller, seen>>

Step ==
    \/ MatchNone
    \/ MatchAbsolute
    \/ MatchCurDir
    \/ MatchNormal
    \/ IterNext
    \/ IterFetch
    \/ MatchParentDir
    \/ ParentById

Next == Resolve \/ Step

Spec == Init /\ [][Next]_vars

\* The resolver is a sequential program: a call that has started runs on.
FairSpec == Spec /\ WF_vars(Step)

\* ------------------------------------------- the other party on the device

RECURSIVE Subtree(_)
Subtree(id) == {id} \cup UNION {Subtree(c) : c \in Range(kids[id])}

Without(seq, id) == SelectSeq(seq, LAMBDA c : c # id)

\* Another party changes the tree while a resolve is between two remote calls.
MayMutate ==
    /\ muts < MaxMut
    /\ pc \in {"match", "scan", "fetch", "byid"}
    /\ muts' = muts + 1
    /\ UNCHANGED <<resolver, caller, seen>>

Rename ==
    /\ MayMutate
    /\ \E id \in Ids \ {Root}, n \in Names :
          /\ Alive(id)
          /\ n # rname[id]
          /\ rname' = [rname EXCEPT ![id] = n]
    /\ UNCHANGED <<kids, rtype>>

Delete ==
    /\ MayMutate
    /\ \E id \in Ids \ {Root} :
          /\ Alive(id)
          /\ kids' = [p \in Ids |-> IF p \in Subtree(id) THEN <<>> ELSE Without(kids[p], id)]
    /\ UNCHANGED <<rname, rtype>>

Move ==
    /\ MayMutate
    /\ \E id \in Ids \ {Root}, p \in Ids :
          /\ Alive(id)
          /\ Alive(p)
          /\ rtype[p] = "Folder"
          /\ p \notin Subtree(id)
          /\ p # ParentOf(id)
          /\ kids' = [q \in Ids |-> IF q = p THEN Append(kids[q], id) ELSE Without(kids[q], id)]
    /\ UNCHANGED <<rname, rtype>>

Add ==
    /\ MayMutate
    /\ \E id \in Ids \ {Root}, p \in Ids, n \in Names, t \in Types :
          /\ rname[id] = Unnamed
          /\ Alive(p)
          /\ rtype[p] = "Folder"
          /\ kids' = [kids EXCEPT ![p] = Append(@, id)]
          /\ rname' = [rname EXCEPT ![id] = n]
          /\ rtype' = [rtype EXCEPT ![id] = t]

Mutate == Rename \/ Delete \/ Move \/ Add

InitMut ==
    /\ InitRemote(SpareMaps)
    /\ muts = 0
    /\ InitResolver

NextMut == Resolve \/ Step \/ Mutate

SpecMut == InitMut /\ [][NextMut]_vars

\* ------------------------------------------------ children and sub_folders

\* ObjectType also carries the type codes it does not know.
ListTypes == Types \cup {"Other"}

\* Every object is on the device; an object without children is of any type.
InitList ==
    /\ \E par \in FullMaps :
          /\ kids = KidsOf(par)
          /\ rname \in NameMaps(par)
          /\ rtype \in {f \in [Ids -> ListTypes] :
                          \A p \in Ids : TypesOf(par)[p] = "Folder" => f[p] = "Folder"}
    /\ muts = 0
    /\ InitResolver

\* What children() and sub_folders() return when the enumeration started.
Iterator == [tag |-> "Iterator"]

\* The closure sub_folders hands to filter().
is_folder_not_file(obj) == obj.ty # "File"
is_folder(obj) == obj.ty = "Folder"

\* Object::children: EnumObjects on the handle's identifier; the iterator on
\* success, the remote error as it is otherwise.
children(h, mode) ==
    /\ pc = "idle"
    /\ origin' = h
    /\ self' = h
    /\ listing' = mode
    /\ \E out \in EnumObjects(h.id) :
          /\ log' = <<Call("EnumObjects", h.id, out)>>
          /\ IF out = "ok"
             THEN /\ pc' = "iter"
                  /\ result' = Iterator
             ELSE /\ pc' = "done"
                  /\ result' = Err("EnumerationError", out)
    /\ UNCHANGED <<path, comps, haystack, iterPos, pend, depth, yielded, prev, seen, remote, muts>>

\* A caller walks h.children() to its end.
CallChildren ==
    \E id \in Ids :
        /\ Alive(id)
        /\ children(Object(id), "children")

\* Object::sub_folders: children() with the filter mapped over a success.
sub_folders(h) == children(h, "sub_folders")

\* A caller walks h.sub_folders() to its end.
CallSubFolders ==
    \E id \in Ids :
        /\ Alive(id)
        /\ sub_folders(Object(id))

\* ObjectIterator::next, first half: pull the next child identifier; the end
\* of the enumeration, or a failure, ends the sequence.
ListNext ==
    /\ pc = "iter"
    /\ \E out \in EnumNext(self.id, iterPos) :
          /\ log' = Append(log, Call("Next", self.id, out))
          /\ IF out \in Ids
             THEN /\ pc' = "iter_fetch"
                  /\ pend' = out
                  /\ iterPos' = iterPos + 1
             ELSE /\ pc' = "done"
                  /\ pend' = Absent
                  /\ iterPos' = 0
    /\ UNCHANGED <<origin, path, self, comps, haystack, result, depth, caller, seen, remote, muts>>

\* ObjectIterator::next, second half: build the child's handle; sub_folders
\* lets it through when it is a folder.
ListFetch ==
    /\ pc = "iter_fetch"
    /\ \E out \in object_by_id(pend) :
          /\ log' = Append(log, Call("Fetch", pend, out))
          /\ IF out = "ok"
             THEN /\ pc' = "iter"
                  /\ yielded' = IF listing = "sub_folders" /\ ~is_folder(Object(pend))
                                THEN yielded
                                ELSE Append(yielded, Object(pend))
                  /\ UNCHANGED iterPos
             ELSE /\ pc' = "done"
                  /\ iterPos' = 0
                  /\ UNCHANGED yielded
    /\ pend' = Absent
    /\ UNCHANGED <<origin, path, self, comps, haystack, result, depth, listing, prev, seen, remote, muts>>

NextList == CallChildren \/ CallSubFolders \/ ListNext \/ ListFetch

SpecList == InitList /\ [][NextList]_vars

\* ------------------------------------------------------- a second resolve

\* What a caller keeps of a resolve that has returned.
Called(r) == [tag |-> "Called", result |-> r, muts |-> muts]

\* The caller resolves the same path from the same handle once more.
ResolveAgain_cached ==
    /\ pc = "done"
    /\ listing = "none"
    /\ prev = None
    /\ prev' = Called(result)
    /\ log' = <<>>
    /\ UNCHANGED <<pc, origin, path, self, comps, haystack, iterPos, pend, result,
                   depth, remote, muts, listing, yielded, seen>>
ResolveAgain ==
    /\ pc = "done"
    /\ listing = "none"
    /\ prev = None
    /\ prev' = Called(result)
    /\ self' = origin
    /\ comps' = path
    /\ pc' = "match"
    /\ haystack' = <<>>
    /\ iterPos' = 0
    /\ pend' = Absent
    /\ result' = None
    /\ log' = <<>>
    /\ depth' = 1
    /\ UNCHANGED <<origin, path, remote, muts, listing, yielded, seen>>

NextTwice == Resolve \/ Step \/ Mutate \/ ResolveAgain

SpecTwice == InitMut /\ [][NextTwice]_vars

\* --------------------------------------------- the resolver as a function

\* object_by_components on a tree at rest whose remote calls fail only for
\* what the tree lacks: what the handle h and the components cs resolve to.
RECURSIVE object_by_components(_, _)
object_by_components(h, cs) ==
    IF cs = <<>> THEN NotFound
    ELSE LET c == Head(cs)
             hits == SelectSeq(kids[h.id],
                               LAMBDA k : find_predicate(Object(k), from_os_str_truncate(c.name)))
             last_stage(candidate) ==
                 IF Tail(cs) = <<>> THEN Ok(candidate)
                 ELSE object_by_components(candidate, Tail(cs))
         IN  CASE c.kind = "Normal" ->
                    IF hits = <<>> THEN NotFound ELSE last_stage(Object(hits[1]))
               [] c.kind = "CurDir" -> last_stage(h)
               [] c.kind = "ParentDir" ->
                    IF ParentOf(h.id) = Absent
                    THEN from_windows_error("PropertyLookupError", NotFoundHr)
                    ELSE last_stage(Object(ParentOf(h.id)))
               [] OTHER -> AbsolutePath

\* ------------------------------------------- handles that have gone stale

\* The operation has been called and has not taken its first step: what
\* changes now changes after the handle was built and before the operation
\* looks at the remote.
HandleBuilt == pc = "match" /\ comps = path

\* Another party renames the object the handle stands for.
RenameSince ==
    /\ HandleBuilt
    /\ \E id \in {handle_id(origin)} \ {Root}, n \in Names :
          /\ n # rname[id]
          /\ rname' = [rname EXCEPT ![id] = n]
    /\ UNCHANGED <<kids, rtype, muts, resolver, caller, seen>>

\* Another party changes the type of that object, when it has no children.
RetypeSince ==
    /\ HandleBuilt
    /\ \E id \in {handle_id(origin)} \ {Root}, t \in Types :
          /\ kids[id] = <<>>
          /\ t # rtype[id]
          /\ rtype' = [rtype EXCEPT ![id] = t]
    /\ UNCHANGED <<kids, rname, muts, resolver, caller, seen>>

\* Every operation of a handle whose object is renamed and retyped after
\* the handle was built.
NextStale ==
    \/ Resolve
    \/ Step
    \/ CallChildren
    \/ CallSubFolders
    \/ ListNext
    \/ ListFetch
    \/ RenameSince
    \/ RetypeSince

SpecStale == Init /\ [][NextStale]_vars

\* ------------------------------------------------------------ the claims

Failed(out) == out \in Hresults \cup {NotFoundHr}
NoFailure == \A i \in 1..Len(log) : ~Failed(log[i].out)
AllNormal(p) == \A i \in 1..Len(p) : p[i].kind = "Normal"
Calls(name) == {i \in 1..Len(log) : log[i].call = name}

\* A name as far as its first NUL.
RECURSIVE UpToNul(_)
UpToNul(name) ==
    IF name = <<>> \/ Head(name) = NUL THEN <<>>
    ELSE <<Head(name)>> \o UpToNul(Tail(name))

\* The walk that keeps, at each level, the first child in enumeration
\* order whose remote name is the component's name (cut at its first NUL
\* when cut is set); Absent when a level has none.
RECURSIVE Walk(_, _, _)
Walk(id, p, cut) ==
    IF p = <<>> THEN id
    ELSE LET wanted == IF cut THEN UpToNul(Head(p).name) ELSE Head(p).name
             hits == SelectSeq(kids[id], LAMBDA c : rname[c] = wanted)
         IN  IF hits = <<>> THEN Absent ELSE Walk(hits[1], Tail(p), cut)

ResultOf(target) == IF target = Absent THEN NotFound ELSE Ok(Object(target))

\* C1: on an unchanging tree whose remote calls all succeed, resolving a
\* non-empty path of Normal components returns what the reference walk
\* returns, each level keeping the first child whose name equals the
\* component exactly: the handle of the object reached, or NotFound.
C1_NormalWalk ==
    (pc = "done" /\ path # <<>> /\ AllNormal(path) /\ NoFailure) =>
        result = ResultOf(Walk(origin.id, path, FALSE))

\* The same walk holds of the code once a component is read up to its
\* first NUL, which is all of it for a name without NUL.
NormalWalkUpToNul ==
    (pc = "done" /\ path # <<>> /\ AllNormal(path) /\ NoFailure) =>
        result = ResultOf(Walk(origin.id, path, TRUE))

\* A two-level walk that had to pass over a non-matching first child.
NormalWalkWitness ==
    /\ pc = "done"
    /\ Len(path) = 2
    /\ AllNormal(path)
    /\ result.tag = "Ok"
    /\ rname[kids[origin.id][1]] # path[1].name

\* C2: every path with a Prefix or RootDir component resolves to AbsolutePath.
C2_Absolute ==
    (pc = "done" /\ \E i \in 1..Len(path) : path[i].kind \in {"Prefix", "RootDir"}) =>
        result = AbsolutePath

\* A RootDir in second position with a Normal component after it.
C2_Witness ==
    /\ pc = "done"
    /\ Len(path) = 3
    /\ path[2].kind = "RootDir"
    /\ path[3].kind = "Normal"
    /\ result = AbsolutePath

\* C3: a failing children(), parent_id() or object_by_id() of a ParentDir
\* step is the last remote call of the resolve, ends it on the spot and is
\* what the caller gets.
C3_Propagation ==
    \A i \in 1..Len(log) :
        (log[i].call \in {"EnumObjects", "ParentId", "ObjectById"} /\ Failed(log[i].out)) =>
            /\ i = Len(log)
            /\ pc = "done"
            /\ result = Err(IF log[i].call = "EnumObjects" THEN "EnumerationError"
                            ELSE "PropertyLookupError", log[i].out)

\* The identifier lookup of a second step failed with components left over.
C3_Witness ==
    /\ pc = "done"
    /\ Len(log) >= 3
    /\ log[Len(log)].call = "ObjectById"
    /\ Failed(log[Len(log)].out)
    /\ comps # <<>>

\* C4: a failure of the enumeration to advance, or of a child's property
\* fetch, during the scan of a Normal step makes resolve return that remote
\* error and not NotFound.
C4_ScanFailureSurfaced ==
    (/\ pc = "done"
     /\ log # <<>>
     /\ log[Len(log)].call \in {"Next", "Fetch"}
     /\ log[Len(log)].out \in Hresults) =>
        /\ result.tag = "Err"
        /\ result.err \in {"EnumerationError", "PropertyLookupError"}

\* The chain of remote parents from id up to the origin spells p, each
\* name of p read up to its first NUL.
RECURSIVE Spells(_, _)
Spells(id, p) ==
    IF p = <<>> THEN id = origin.id
    ELSE /\ rname[id] = UpToNul(p[Len(p)].name)
         /\ ParentOf(id) # Absent
         /\ Spells(ParentOf(id), SubSeq(p, 1, Len(p) - 1))

\* What the claim calls a view that is neither stale nor racy: the object
\* is on the device under the name the handle carries and, for a path of
\* Normal components, sits where the path says.
Current(obj) ==
    /\ Alive(obj.id)
    /\ rname[obj.id] = obj.name
    /\ AllNormal(path) => Spells(obj.id, path)

C6_ParentDir ==
    (pc = "done" /\ path = <<ParentDir>>) =>
        /\ Calls("EnumObjects") \cup Calls("Next") \cup Calls("Fetch") = {}
        /\ Len(log) \in 1..2
        /\ log[1] = Call("ParentId", origin.id, log[1].out)
        /\ Len(log) = 2 => log[2] = Call("ObjectById", ParentOf(origin.id), log[2].out)
        /\ (ParentOf(origin.id) # Absent /\ NoFailure) =>
              /\ Len(log) = 2
              /\ result = Ok(Object(ParentOf(origin.id)))

C6_Witness ==
    /\ pc = "done"
    /\ path = <<ParentDir>>
    /\ result.tag = "Ok"
    /\ result.obj.id # Root

\* C7: from an origin without parent, a path that starts with ParentDir ends
\* in PropertyLookupError after the single parent_id() call; the later
\* components are left unconsumed.
C7_RootHasNoParent ==
    (/\ ParentOf(origin.id) = Absent
     /\ path # <<>>
     /\ path[1].kind = "ParentDir"
     /\ (pc # "match" \/ comps # path)) =>
        /\ pc = "done"
        /\ result.tag = "Err"
        /\ result.err = "PropertyLookupError"
        /\ Len(log) = 1
        /\ log[1].call = "ParentId"
        /\ comps = Tail(path)

C7_Witness ==
    /\ pc = "done"
    /\ origin.id = Root
    /\ Len(path) = 2
    /\ path[1].kind = "ParentDir"
    /\ path[2].kind = "Normal"
    /\ result = Err("PropertyLookupError", NotFoundHr)

\* C8: the empty path resolves to NotFound.
C8_EmptyPath ==
    (pc = "done" /\ path = <<>>) => result = NotFound

C8_Witness ==
    /\ pc = "done"
    /\ path = <<>>
    /\ origin.id # Root

\* C9: CurDir alone resolves to a handle with the origin's identifier.
C9_CurDir ==
    (pc = "done" /\ path = <<CurDir>>) =>
        /\ result.tag = "Ok"
        /\ result.obj.id = origin.id

C9_Witness ==
    /\ pc = "done"
    /\ path = <<CurDir>>
    /\ result.tag = "Ok"
    /\ origin.id # Root

\* C10 (frames): every frame of object_by_components has consumed one
\* component, so the stack never holds more frames than the path has
\* components (one frame for the empty path).
C10_Frames ==
    pc # "idle" =>
        /\ pc # "overflow"
        /\ depth = Len(path) - Len(comps) + (IF pc = "match" \/ path = <<>> THEN 1 ELSE 0)
        /\ depth <= (IF path = <<>> THEN 1 ELSE Len(path))

\* C10: a resolve that has started returns, and its recursion is never
\* deeper than the path is long.
C10_Terminates ==
    /\ []C10_Frames
    /\ (pc \in {"match", "scan", "fetch", "byid"}) ~> (pc = "done")

\* Three components, one frame each, CurDir and ParentDir among them.
C10_Witness ==
    /\ pc = "done"
    /\ Len(path) = 3
    /\ depth = 3
    /\ path[1].kind = "CurDir"
    /\ path[3].kind = "ParentDir"
    /\ result.tag = "Ok"

\* The handles of the children of id, in enumeration order.
ChildHandles(id) == [i \in 1..Len(kids[id]) |-> Object(kids[id][i])]

\* C11: children() yields the children the remote reports, each once and
\* in that order; sub_folders() yields those of them that are folders, in
\* the same order; a failure to start the enumeration comes back from both
\* as the remote error it is.
C11_ChildrenAndSubFolders ==
    (pc = "done" /\ listing # "none") =>
        /\ result.tag = "Err" =>
              /\ log = <<Call("EnumObjects", origin.id, result.hr)>>
              /\ result = Err("EnumerationError", result.hr)
              /\ yielded = <<>>
        /\ NoFailure =>
              /\ result = Iterator
              /\ listing = "children" => yielded = ChildHandles(origin.id)
              /\ listing = "sub_folders" =>
                    yielded = SelectSeq(ChildHandles(origin.id), LAMBDA o : o.ty = "Folder")

\* Three children, a folder, something else and a folder: sub_folders has
\* yielded the first and the third.
C11_Witness ==
    /\ pc = "done"
    /\ listing = "sub_folders"
    /\ NoFailure
    /\ Len(kids[origin.id]) = 3
    /\ rtype[kids[origin.id][2]] # "Folder"
    /\ yielded = <<Object(kids[origin.id][1]), Object(kids[origin.id][3])>>

\* The last EnumObjects of the log: the enumeration a scan is reading.
LastEnum == CHOOSE i \in Calls("EnumObjects") : \A j \in Calls("EnumObjects") : j <= i

\* The enumeration of the last Normal step ran to its end, and that is the
\* last thing the resolve asked of the remote.
EndsInExhaustion ==
    /\ Calls("EnumObjects") # {}
    /\ log[Len(log)] = Call("Next", log[LastEnum].id, "end")

\* C12: AbsolutePath and the NotFound of the empty path cost no remote
\* call, and when a Normal step returns NotFound the last remote activity
\* of the resolve is that step's enumeration reaching its end.
C12_LocalErrors ==
    pc = "done" =>
        /\ (result = AbsolutePath \/ path = <<>>) => log = <<>>
        /\ (result = NotFound /\ path # <<>>) => EndsInExhaustion

\* The same holds of every resolve whose remote calls all succeed.
LocalErrorsWithoutFailure ==
    (pc = "done" /\ NoFailure) =>
        /\ (result = AbsolutePath \/ path = <<>>) => log = <<>>
        /\ (result = NotFound /\ path # <<>>) => EndsInExhaustion

\* The EnumObjects calls of the log, in order: one per level entered.
Enums == SelectSeq(log, LAMBDA c : c.call = "EnumObjects")

\* C13: a Normal step commits to the first child, in enumeration order,
\* that carries the requested name: the k-th level enumerated is the one
\* reached through the first match of each earlier component, no level is
\* enumerated twice, and when nothing resolves under the first matches the
\* result is NotFound whatever lies under a later sibling of the same name.
C13_FirstMatchCommitted ==
    (pc = "done" /\ path # <<>> /\ AllNormal(path) /\ NoFailure) =>
        /\ Len(Enums) <= Len(path)
        /\ \A k \in 1..Len(Enums) :
              Enums[k].id = Walk(origin.id, SubSeq(path, 1, k - 1), TRUE)
        /\ Walk(origin.id, path, TRUE) = Absent => result = NotFound

\* NotFound under the first match although the rest of the path resolves
\* under a later sibling of the same name.
C13_Witness ==
    /\ pc = "done"
    /\ Len(path) = 2
    /\ AllNormal(path)
    /\ NoFailure
    /\ result = NotFound
    /\ \E i, j \in 1..Len(kids[origin.id]) :
          /\ i < j
          /\ rname[kids[origin.id][i]] = UpToNul(path[1].name)
          /\ rname[kids[origin.id][j]] = UpToNul(path[1].name)
          /\ Walk(kids[origin.id][j], Tail(path), TRUE) # Absent

\* The names of the Normal components of the path, as the scans look for
\* them: the k-th EnumObjects of a resolve serves the k-th of them.
Haystacks ==
    LET normals == SelectSeq(path, LAMBDA c : c.kind = "Normal")
    IN  [k \in 1..Len(normals) |-> UpToNul(normals[k].name)]

\* The EnumObjects call that call i of the log belongs to, and its rank
\* among the EnumObjects calls.
EnumOf(i) ==
    CHOOSE e \in Calls("EnumObjects") :
        e < i /\ \A f \in Calls("EnumObjects") : f < i => f <= e
RankOf(e) == Cardinality({f \in Calls("EnumObjects") : f <= e})

\* The Next and Fetch calls made so far on the enumeration opened by call e.
ScanOf(e) ==
    {i \in Calls("Next") \cup Calls("Fetch") :
        /\ Calls("EnumObjects") \cap 1..(i - 1) # {}
        /\ EnumOf(i) = e}

\* C14: a scan pulls one child at a time, each Next that yields a child
\* being followed by that child's fetch and by nothing else; it issues no
\* Next and no fetch once a fetched child has matched; and a level is
\* enumerated only after the scan above it stopped on the child enumerated.
C14_LazyScan ==
    /\ \A i \in Calls("Next") :
          /\ Calls("EnumObjects") \cap 1..(i - 1) # {}
          /\ log[i].id = log[EnumOf(i)].id
          /\ (log[i].out \in Ids /\ i < Len(log)) =>
                log[i + 1] \in {Call("Fetch", log[i].out, o) :
                                  o \in {"ok"} \cup Hresults \cup {NotFoundHr}}
    /\ \A i \in Calls("Fetch") :
          /\ i > 1
          /\ log[i - 1] = Call("Next", log[i - 1].id, log[i].id)
    /\ \A e \in Calls("EnumObjects") :
          /\ RankOf(e) <= Len(Haystacks)
          /\ \A i, j \in ScanOf(e) :
                (j < i /\ log[j].call = "Fetch" /\ log[j].out = "ok") =>
                    rname[log[j].id] # Haystacks[RankOf(e)]
          /\ (e > 1 /\ log[e - 1].call \in {"Next", "Fetch"}) =>
                /\ log[e - 1] = Call("Fetch", log[e].id, "ok")
                /\ rname[log[e].id] = Haystacks[RankOf(EnumOf(e))]

\* The second level is being enumerated after a scan that stopped on the
\* second of three children: the third was never pulled.
C14_Witness ==
    /\ Len(log) = 6
    /\ log[1].call = "EnumObjects"
    /\ Len(kids[log[1].id]) = 3
    /\ log[5] = Call("Fetch", kids[log[1].id][2], "ok")
    /\ log[6] = Call("EnumObjects", kids[log[1].id][2], "ok")

\* The component the resolver consumed last.
Consumed == path[Len(path) - Len(comps)]

\* The scan of a Normal step came to the end of its sequence: Next yielded
\* no child, or the sequence was cut short by a failed Next or fetch.
ScanEnded ==
    /\ log # <<>>
    /\ \/ log[Len(log)].call = "Next" /\ log[Len(log)].out \notin Ids
       \/ log[Len(log)].call = "Fetch" /\ Failed(log[Len(log)].out)

C16_HandleFixed ==
    /\ [][pc # "idle" => origin' = origin]_vars
    /\ []((path # <<>> /\ path[1] = CurDir /\ Len(comps) = Len(path) - 1) =>
              /\ log = <<>>
              /\ pc = "match" => self = origin
              /\ pc = "done" => /\ result = Ok(origin)
                                /\ handle_name(result.obj) = handle_name(origin)
                                /\ object_type(result.obj) = object_type(origin))

\* CurDir alone returned the origin's cached name after the remote object
\* was renamed.
C16_Witness ==
    /\ pc = "done"
    /\ path = <<CurDir>>
    /\ result.tag = "Ok"
    /\ handle_name(result.obj) # rname[handle_id(origin)]
    /\ log = <<>>

\* The same for the type.
RetypedWitness ==
    /\ pc = "done"
    /\ path = <<CurDir>>
    /\ result.tag = "Ok"
    /\ object_type(result.obj) # rtype[handle_id(origin)]

\* No remote call of the resolve failed for a reason other than the tree.
NoFault == \A i \in 1..Len(log) : log[i].out \notin Hresults

\* What a caller tells two outcomes apart by: the identifier on success,
\* the kind of error on failure.
Outcome(r) == IF r.tag = "Ok" THEN <<"Ok", handle_id(r.obj)>> ELSE <<"Err", r.err>>

\* Every component, for the lists that no path spells.
AnyComponent == {CurDir, ParentDir, RootDir, Prefix} \cup {Normal(n) : n \in Names \cup {NulSeg}}

\* The same of the resolver function alone, from the handle h, for every
\* list of components and not only those a path spells.  It depends on the
\* tree and on h only, and is looked at once for each, at the end of the
\* resolve of the empty path.
ComposesFrom(h) ==
    \A p, q \in SeqsUpTo(AnyComponent, MaxLen - 1) \ {<<>>} :
        Len(p) + Len(q) <= MaxLen =>
            LET m == object_by_components(h, p)
            IN  /\ m.tag = "Ok" =>
                       Outcome(object_by_components(h, p \o q))
                           = Outcome(object_by_components(m.obj, q))
                /\ Outcome(object_by_components(h, <<CurDir>> \o q))
                       = Outcome(object_by_components(h, q))

\* C17: on a tree at rest, a resolve gives what the resolver function
\* gives, and for every split of its path into non-empty p and q with p
\* resolving from the origin to a handle M, it gives the outcome of
\* resolving q from M; a leading CurDir changes nothing.
C17_Composes ==
    (pc = "done" /\ NoFault) =>
        /\ result = object_by_components(origin, path)
        /\ \A k \in 1..(Len(path) - 1) :
              LET p == SubSeq(path, 1, k)
                  q == SubSeq(path, k + 1, Len(path))
                  m == object_by_components(origin, p)
              IN  m.tag = "Ok" => Outcome(result) = Outcome(object_by_components(m.obj, q))
        /\ (Len(path) > 1 /\ path[1] = CurDir) =>
              Outcome(result) = Outcome(object_by_components(origin, Tail(path)))
        /\ path = <<>> => ComposesFrom(origin)

\* A three-component resolve that went down, up and down again to an
\* object other than its origin.
C17_Witness ==
    /\ pc = "done"
    /\ NoFault
    /\ Len(path) = 3
    /\ path[2] = ParentDir
    /\ result.tag = "Ok"
    /\ handle_id(result.obj) # handle_id(origin)
    /\ object_by_components(origin, SubSeq(path, 1, 2)).tag = "Ok"

\* C18: with the parent of every object being the object it is enumerated
\* under, and no remote call failing, resolving <<Normal(n), ParentDir>>
\* from a handle with a child named n succeeds, and returns the origin's
\* identifier with the name and type that the lookup by identifier, the
\* last remote call, has just reported.
C18_DownThenUp ==
    (pc = "done" /\ Len(path) = 2 /\ path[1].kind = "Normal" /\ path[2] = ParentDir
     /\ NoFailure) =>
        /\ (\E c \in Range(kids[handle_id(origin)]) : rname[c] = path[1].name) =>
              result.tag = "Ok"
        /\ result.tag = "Ok" =>
              /\ handle_id(result.obj) = handle_id(origin)
              /\ log[Len(log)] = Call("ObjectById", handle_id(origin), "ok")
              /\ result.obj = Object(handle_id(origin))

\* Down and up again to an origin renamed since its handle was built: the
\* handle returned has the origin's identifier and the new name.
C18_Witness ==
    /\ pc = "done"
    /\ Len(path) = 2
    /\ path[1].kind = "Normal"
    /\ path[2] = ParentDir
    /\ NoFailure
    /\ result.tag = "Ok"
    /\ handle_id(result.obj) = handle_id(origin)
    /\ handle_name(result.obj) # handle_name(origin)

\* The step in which a scan takes the child it has just fetched.
Chosen ==
    /\ pc = "fetch"
    /\ \/ pc' \in {"match", "overflow"}
       \/ pc' = "done" /\ result'.tag = "Ok"

\* One EnumObjects was issued for each Normal component consumed so far.
OwnEnumerations ==
    Len(Enums) = Len(SelectSeq(SubSeq(path, 1, Len(path) - Len(comps)),
                               LAMBDA c : c.kind = "Normal"))

====
